---- MODULE Spec2Model ----
(***************************************************************************)
(* A model of the Lazy sequence class of src/lazy.js: Sequence objects     *)
(* (Lazy instances wrapping a generator function and an `infinite` tag),   *)
(* the generator objects ("cursors") their iterator functions return, the  *)
(* transformation combinators, the eager operations and the static         *)
(* helpers.  A consumer program holds a list of Sequence values, opens     *)
(* cursors on them and advances the cursors in any interleaving.           *)
(***************************************************************************)
EXTENDS Integers, Sequences, FiniteSets, TLC

(***************************************************************************)
(* Bounds of the model.                                                    *)
(***************************************************************************)
MaxOps == 3        \* steps of a consumer program that starts with nothing
MaxDepth == 2      \* combinators applied, in one expression, to a first Sequence
MaxCursors == 2    \* cursors opened per run
MaxOut == 3        \* elements a consumer pulls from one cursor
MaxN == 2          \* largest count passed to take / drop, largest naturals start
ArrayLen == 3      \* length of the array literal the program uses
FibRounds == 12    \* rounds of reduce's loop the Fibonacci program allows for

\* A call counts as divergent when one next() of one generator consumes
\* Fuel elements in a row without yielding: more than a finite Sequence of
\* the model makes it skip (the array has ArrayLen elements, and each call
\* that builds on it puts at most one element in front).
Fuel == ArrayLen + MaxDepth + 1

\* The loop of an eager operation counts as divergent when it goes round
\* LoopFuel times: a finite Sequence built in fewer than MaxOps calls holds
\* fewer than ArrayLen + MaxOps elements.
LoopFuel == ArrayLen + MaxOps

(***************************************************************************)
(* JavaScript values that flow through a sequence: numbers, the two-       *)
(* element arrays zip yields, and undefined.  One record shape for all.    *)
(***************************************************************************)
Num(n) == [k |-> "num", x |-> n, y |-> 0]
Pair(a, b) == [k |-> "pair", x |-> a, y |-> b]
Undefined == [k |-> "undef", x |-> 0, y |-> 0]
NaN == [k |-> "nan", x |-> 0, y |-> 0]
Str == [k |-> "string", x |-> 0, y |-> 0]
Null == [k |-> "null", x |-> 0, y |-> 0]

\* The values of the `infinite` property and of the optional flag arguments.
T == "true"
F == "false"
U == "undefined"
Flags == {T, F, U}

Truthy(x) == x = T

\* JavaScript's  x && y : the first operand when it is falsy, else the second.
AndJS(x, y) == IF Truthy(x) THEN y ELSE x

(***************************************************************************)
(* User callbacks, as named closures: f names the function, k is the       *)
(* number it captures (if any).  Spread(f) is zipWith's  ([a, b]) =>       *)
(* f(a, b)  around the user's f.  A callback event records the user's      *)
(* function and the arguments it received.                                 *)
(***************************************************************************)
Cb(name, k) == [f |-> name, k |-> k, g |-> ""]
Spread(f) == [f |-> "spread", k |-> f.k, g |-> f.f]

(***************************************************************************)
(* Side effects are recorded as events: a user callback invocation with    *)
(* the arguments it received, an element computed by an origin (naturals,  *)
(* an array iterator), the invocation of a deferred function.              *)
(***************************************************************************)
CbEvent(cb, args) ==
  IF cb.f = "spread"
  THEN [e |-> "cb", f |-> cb.g, args |-> <<Num(args[1].x), Num(args[1].y)>>]
  ELSE [e |-> "cb", f |-> cb.f, args |-> args]
OriginEvent(name, v) == [e |-> "origin", f |-> name, args |-> <<v>>]
ThunkEvent(t) == [e |-> "thunk", f |-> t.t, args |-> <<>>]

\* The value a mapping / folding callback returns for the arguments passed.
Apply(cb, args) ==
  CASE cb.f = "inc"     -> Num(args[1].x + 1)
    [] cb.f = "sum"     -> IF args[1].k = "num" /\ args[2].k = "num"
                           THEN Num(args[1].x + args[2].x) ELSE NaN
    [] cb.f = "spread" /\ cb.g = "sum" -> Num(args[1].x + args[1].y)
    [] OTHER            -> Undefined

\* The truth value a predicate callback returns for the arguments passed.
Test(cb, args) ==
  CASE cb.f = "even"   -> args[1].x % 2 = 0
    [] cb.f = "lt"     -> args[1].x < cb.k
    [] cb.f = "notDiv" -> args[1].x % cb.k # 0
    [] OTHER           -> FALSE

(***************************************************************************)
(* What a call returns: normally with a value, by throwing, or never (the  *)
(* call loops for ever).  ev lists the side effects it had, in order.      *)
(***************************************************************************)
\* The result res of a later part of a call, after the events ev of an earlier part.
After(ev, res) == [res EXCEPT !.ev = ev \o @]
Ok(v, ev) == [r |-> "ok", v |-> v, err |-> "", ev |-> ev]
Throw(err, ev) == [r |-> "throw", v |-> Undefined, err |-> err, ev |-> ev]
Hang(ev) == [r |-> "diverge", v |-> Undefined, err |-> "", ev |-> ev]

Infinity == [k |-> "infinity", x |-> 0, y |-> 0]

(***************************************************************************)
(* Functions and iterables.  A generator function is a closure record      *)
(* whose fn names its body and whose other fields are the captured         *)
(* variables; a native array is [cls |-> "Array", elems |-> ...].           *)
(***************************************************************************)
NotCallable == [fn |-> "notCallable"]
IsFunction(x) == x # NotCallable
NotCallableCb == Cb("notCallable", 0)
IsFunctionCb(cb) == cb.f # "notCallable"

Array(elems) == [cls |-> "Array", elems |-> elems]
NotIterable == [cls |-> "Number"]
NoOperand == [cls |-> "Undefined"]

IsLazy(v) == v.cls = "Lazy"

Tagged(v) == IsLazy(v) /\ v.infinite = T

\* v.infinite : the tag of a Lazy, undefined on any other value.
InfiniteOf(v) == IF IsLazy(v) THEN v.infinite ELSE U

\* v[Symbol.iterator] : the iterator function of v, detached from v.
ArrayValues == [fn |-> "arrayValues"]
NoSI == [fn |-> "undefined"]
SI(v) ==
  CASE v.cls = "Lazy"  -> v.iter
    [] v.cls = "Array" -> ArrayValues
    [] OTHER           -> NoSI

(***************************************************************************)
(* Generator objects.  Calling a generator function runs none of its body: *)
(* it returns a generator object suspended at the start.  pc is where the  *)
(* body is suspended, i and flag are the body's local variables, it (and   *)
(* it2 for zip) the iterators of the for-of / yield* the body is inside.   *)
(***************************************************************************)
NoIter == [pc |-> "none"]

Gen(closure) ==
  [c |-> closure, pc |-> "start", i |-> 0, flag |-> TRUE, it |-> NoIter, it2 |-> NoIter]

\* A generator that has returned or thrown: every later next() reports done.
Finished(g) ==
  [c |-> g.c, pc |-> "done", i |-> 0, flag |-> TRUE, it |-> NoIter, it2 |-> NoIter]

RECURSIVE Step(_, _)
RECURSIVE Call(_, _)
RECURSIVE LazyHead(_, _)

\* A constructor that runs the iterator function to its first element.
LazyPrefetch(iterator, infinite) ==
  IF ~IsFunction(iterator)
  THEN Throw("TypeError", <<>>)
  ELSE Ok([cls |-> "Lazy", iter |-> iterator,
           infinite |-> IF infinite = U THEN F ELSE infinite],
          Step(Gen(iterator), Fuel).ev)

\* new Lazy(iterator, infinite = false)

Lazy(iterator, infinite) ==
  IF ~IsFunction(iterator)
  THEN Throw("TypeError", <<>>)
  ELSE Ok([cls |-> "Lazy", iter |-> iterator,
           infinite |-> IF infinite = U THEN F ELSE infinite], <<>>)

(***************************************************************************)
(* The transformation combinators: each only builds a new Lazy around a    *)
(* generator function that captures the original.                          *)
(***************************************************************************)
Map(orig, cb) ==
  IF ~IsFunctionCb(cb) THEN Throw("TypeError", <<>>)
  ELSE Lazy([fn |-> "map", orig |-> orig, cb |-> cb], orig.infinite)

Filter(orig, pred) ==
  IF ~IsFunctionCb(pred) THEN Throw("TypeError", <<>>)
  ELSE Lazy([fn |-> "filter", orig |-> orig, cb |-> pred], orig.infinite)

TakeKeepsTag(orig, n) == Lazy([fn |-> "take", orig |-> orig, n |-> n], orig.infinite)

Take(orig, n) == Lazy([fn |-> "take", orig |-> orig, n |-> n], F)

Drop(orig, n) == Lazy([fn |-> "drop", orig |-> orig, n |-> n], orig.infinite)

\* takeWhile handing on the tag of the original
TakeWhileKeepsTag(orig, pred) ==
  IF ~IsFunctionCb(pred) THEN Throw("TypeError", <<>>)
  ELSE Lazy([fn |-> "takeWhile", orig |-> orig, cb |-> pred], orig.infinite)

TakeWhile(orig, pred) ==
  IF ~IsFunctionCb(pred) THEN Throw("TypeError", <<>>)
  ELSE Lazy([fn |-> "takeWhile", orig |-> orig, cb |-> pred], F)

DropWhile(orig, pred) ==
  IF ~IsFunctionCb(pred) THEN Throw("TypeError", <<>>)
  ELSE Lazy([fn |-> "dropWhile", orig |-> orig, cb |-> pred], orig.infinite)

\* get tail()
LazyTail(orig) == Drop(orig, 1)

(***************************************************************************)
(* The static helpers.                                                     *)
(***************************************************************************)
From(f, infinite) ==
  IF ~IsFunction(f) THEN Throw("TypeError", <<>>)
  ELSE Lazy([fn |-> "from", f |-> f], infinite)

\* Lazy.cons with the explicit third argument ignored
ConsIgnoresFlag(a, b, infinite) ==
  IF SI(b) = NoSI THEN Throw("TypeError", <<>>)
  ELSE Lazy([fn |-> "cons", a |-> a, b |-> b], IF IsLazy(b) THEN b.infinite ELSE U)

Cons(a, b, infinite) ==
  IF SI(b) = NoSI THEN Throw("TypeError", <<>>)
  ELSE Lazy([fn |-> "cons", a |-> a, b |-> b],
            IF infinite = U /\ IsLazy(b) THEN b.infinite ELSE infinite)

\* Lazy.naturals with no check of n
NaturalsUnchecked(n) == Lazy([fn |-> "naturals", n |-> n.x], T)

\* static naturals(n = 0) : n is undefined (the default 0 applies), a finite
\* number, or a value whose typeof is not 'number'.
NaturalsFrom(n) ==
  IF n.k # "num" THEN Throw("TypeError", <<>>)
  ELSE IF n.x < 0 THEN Throw("RangeError", <<>>)
  ELSE Lazy([fn |-> "naturals", n |-> n.x], T)

Naturals(n) == NaturalsFrom(IF n = Undefined THEN Num(0) ELSE n)

Zip(a, b) ==
  IF SI(a) = NoSI \/ SI(b) = NoSI THEN Throw("TypeError", <<>>)
  ELSE Lazy([fn |-> "zip", sa |-> SI(a), sb |-> SI(b)],
            AndJS(InfiniteOf(a), InfiniteOf(b)))

ZipWith(f, a, b) ==
  LET z == Zip(a, b)
  IN  IF z.r # "ok" THEN z ELSE Map(z.v, Spread(f))

(***************************************************************************)
(* Iterating.                                                              *)
(***************************************************************************)
\* v[Symbol.iterator]() as for-of and yield* call it, with v as receiver.
Iterate(v) ==
  IF v.cls = "Array" THEN Gen([fn |-> "array", elems |-> v.elems]) ELSE Gen(v.iter)

\* sa() as zip calls it: the iterator function detached from its object.
\* A generator function ignores its receiver; Array.prototype's iterator
\* method throws a TypeError without one.
CallDetached(sfn) ==
  IF sfn = ArrayValues THEN Throw("TypeError", <<>>) ELSE Ok(Gen(sfn), <<>>)

\* s[Symbol.iterator]() for a Lazy s, as the consumer calls it: the stored
\* generator function is called, which runs none of its body.
IteratorCallRunsF(s) ==
  IF s.iter.fn = "from"
  THEN LET c == Call(s.iter.f, Fuel) IN After(c.ev, Ok(Iterate(s), <<>>))
  ELSE Ok(Iterate(s), <<>>)

IteratorCall(s) == Ok(Iterate(s), <<>>)

\* What one next() on a generator object gives.
Yield(g, v, ev) == [g |-> g, r |-> "yield", v |-> v, err |-> "", ev |-> ev]
Done(g, ev) == [g |-> Finished(g), r |-> "done", v |-> Undefined, err |-> "", ev |-> ev]
Raise(g, err, ev) == [g |-> Finished(g), r |-> "throw", v |-> Undefined, err |-> err, ev |-> ev]
Diverge(g, ev) == [g |-> g, r |-> "diverge", v |-> Undefined, err |-> "", ev |-> ev]


\* The result of an inner next() that ended the outer generator's body too.
Ended(g, r) ==
  CASE r.r = "done"  -> Done(g, r.ev)
    [] r.r = "throw" -> Raise(g, r.err, r.ev)
    [] OTHER         -> Diverge(g, r.ev)

(***************************************************************************)
(* The i++ < n tests of take and drop, and the callback invocations of     *)
(* map and filter.                                                         *)
(***************************************************************************)
Takes(i, n) == i < n

DropsOneLess(i, n) == i + 1 < n
Drops(i, n) == i < n

\* cb.call(ctx, k) : the arguments map, filter and forEach pass to the callback.
CbArgs(k) == <<k>>

\* sieve(a) with the multiples of head left in the tail
SieveKeepsMultiples(f, hd) ==
  IF hd.r # "ok" THEN After(<<ThunkEvent(f)>>, hd)
  ELSE LET rest == From([t |-> "sieve", arg |-> LazyTail(f.arg).v, inf |-> f.inf], U).v
       IN  After(<<ThunkEvent(f)>> \o hd.ev, Cons(hd.v, rest, f.inf))

\* The body of sieve(a) of src/primes.js (primes2 of src/test.js), given
\* the outcome hd of a.head.
SieveBody(f, hd) ==
  IF hd.r # "ok" THEN After(<<ThunkEvent(f)>>, hd)
  ELSE LET tl   == Filter(LazyTail(f.arg).v, Cb("notDiv", hd.v.x)).v
           rest == From([t |-> "sieve", arg |-> tl, inf |-> f.inf], U).v
       IN  After(<<ThunkEvent(f)>> \o hd.ev, Cons(hd.v, rest, f.inf))

\* The body of f(a, b) of fibs2 (src/test.js):
\* Lazy.cons(a, Lazy.from(() => f(b, a + b)), true)
FibBody(f) ==
  LET rest == From([t |-> "fib", a |-> f.b, b |-> f.a + f.b, inf |-> f.inf], U).v
  IN  After(<<ThunkEvent(f)>>, Cons(Num(f.a), rest, f.inf))

\* f() for the function f given to Lazy.from
Call(f, fuel) ==
  CASE f.t = "const" -> Ok(f.v, <<ThunkEvent(f)>>)
    [] f.t = "sieve" -> SieveBody(f, LazyHead(f.arg, fuel))
    [] f.t = "fib"   -> FibBody(f)
    [] OTHER         -> Throw("TypeError", <<ThunkEvent(f)>>)

\* let [ head ] = ... : the first element of the result r of the first
\* next(), undefined when there is none.
FirstOf(r) ==
  CASE r.r = "yield"   -> Ok(r.v, r.ev)
    [] r.r = "done"    -> Ok(Undefined, r.ev)
    [] r.r = "throw"   -> Throw(r.err, r.ev)
    [] OTHER           -> Hang(r.ev)

\* get head() :  let [ head ] = this.take(1)
LazyHead(s, fuel) == FirstOf(Step(Iterate(Take(s, 1).v), fuel))

\* The for-of of a body creates the original's iterator when the body
\* first runs.
Enter(g) ==
  IF g.pc = "start" THEN [g EXCEPT !.pc = "loop", !.it = Iterate(g.c.orig)] ELSE g

\* naturals :  let i = n; while (true) yield i++
NaturalsBody(g) ==
  LET i == IF g.pc = "start" THEN g.c.n ELSE g.i
  IN  Yield([g EXCEPT !.pc = "loop", !.i = i + 1], Num(i),
            <<OriginEvent("naturals", Num(i))>>)

\* the iterator of a native array
ArrayBody(g) ==
  IF g.i < Len(g.c.elems)
  THEN Yield([g EXCEPT !.pc = "loop", !.i = @ + 1], g.c.elems[g.i + 1],
             <<OriginEvent("array", g.c.elems[g.i + 1])>>)
  ELSE Done(g, <<>>)

\* One round of the for-of of each body, r being what the original's
\* next() gave.  A body that consumes the element without yielding goes
\* round again.
MapBody(g, r) ==
  IF r.r = "yield"
  THEN Yield([g EXCEPT !.it = r.g], Apply(g.c.cb, CbArgs(r.v)),
             r.ev \o <<CbEvent(g.c.cb, CbArgs(r.v))>>)
  ELSE Ended(g, r)

FilterBody(g, r, fuel) ==
  IF r.r = "yield"
  THEN IF Test(g.c.cb, CbArgs(r.v))
       THEN Yield([g EXCEPT !.it = r.g], r.v, r.ev \o <<CbEvent(g.c.cb, CbArgs(r.v))>>)
       ELSE After(r.ev \o <<CbEvent(g.c.cb, CbArgs(r.v))>>,
                  Step([g EXCEPT !.it = r.g], fuel - 1))
  ELSE Ended(g, r)

TakeBody(g, r) ==
  IF r.r = "yield"
  THEN IF Takes(g.i, g.c.n)
       THEN Yield([g EXCEPT !.it = r.g, !.i = @ + 1], r.v, r.ev)
       ELSE Done(g, r.ev)
  ELSE Ended(g, r)

DropBody(g, r, fuel) ==
  IF r.r = "yield"
  THEN IF Drops(g.i, g.c.n)
       THEN After(r.ev, Step([g EXCEPT !.it = r.g, !.i = @ + 1], fuel - 1))
       ELSE Yield([g EXCEPT !.it = r.g, !.i = @ + 1], r.v, r.ev)
  ELSE Ended(g, r)

\* take = take && pred(k) : pred is called only while take is true
TestedWhile(g, r) ==
  IF g.flag THEN r.ev \o <<CbEvent(g.c.cb, <<r.v>>)>> ELSE r.ev

TakeWhileBody(g, r) ==
  IF r.r = "yield"
  THEN IF g.flag /\ Test(g.c.cb, <<r.v>>)
       THEN Yield([g EXCEPT !.it = r.g], r.v, TestedWhile(g, r))
       ELSE Done(g, TestedWhile(g, r))
  ELSE Ended(g, r)

\* dropWhile testing every element again: drop never becomes false
DropWhileRetests(g, r, fuel) ==
  IF r.r = "yield"
  THEN IF Test(g.c.cb, <<r.v>>)
       THEN After(TestedWhile(g, r), Step([g EXCEPT !.it = r.g], fuel - 1))
       ELSE Yield([g EXCEPT !.it = r.g], r.v, TestedWhile(g, r))
  ELSE Ended(g, r)

DropWhileBody(g, r, fuel) ==
  IF r.r = "yield"
  THEN IF g.flag /\ Test(g.c.cb, <<r.v>>)
       THEN After(TestedWhile(g, r), Step([g EXCEPT !.it = r.g], fuel - 1))
       ELSE Yield([g EXCEPT !.it = r.g, !.flag = FALSE], r.v, TestedWhile(g, r))
  ELSE Ended(g, r)

\* zip :  var ia = sa(); var ib = sb();  when the body first runs
ZipEnter(g) ==
  IF g.pc # "start" THEN Ok(g, <<>>)
  ELSE LET ia == CallDetached(g.c.sa)
           ib == CallDetached(g.c.sb)
       IN  IF ia.r # "ok" THEN ia
           ELSE IF ib.r # "ok" THEN ib
           ELSE Ok([g EXCEPT !.pc = "loop", !.it = ia.v, !.it2 = ib.v], <<>>)

\* zip :  one round of while (true), na and nb being ia.next() and ib.next()
ZipBody(g, na, nb) ==
  IF na.r \in {"throw", "diverge"} THEN Ended(g, na)
  ELSE IF nb.r \in {"throw", "diverge"} THEN After(na.ev, Ended(g, nb))
  ELSE IF na.r = "done" \/ nb.r = "done" THEN Done(g, na.ev \o nb.ev)
  ELSE Yield([g EXCEPT !.it = na.g, !.it2 = nb.g], Pair(na.v.x, nb.v.x), na.ev \o nb.ev)

ZipRound(g, z) ==
  IF z.r = "ok" THEN ZipBody(z.v, Step(z.v.it, Fuel), Step(z.v.it2, Fuel))
  ELSE Raise(g, z.err, <<>>)

\* yield* f() : the body calls f when it first runs, and from then on the
\* generator does whatever the iterator of f's result c does.
FromBody(g, c) ==
  IF c.r = "ok" THEN After(c.ev, Step(Iterate(c.v), Fuel))
  ELSE IF c.r = "throw" THEN Raise(g, c.err, c.ev)
  ELSE Diverge(g, c.ev)

\* yield a; yield* b : after a, whatever the iterator of b does
ConsBody(g) ==
  IF g.pc = "start" THEN Yield([g EXCEPT !.pc = "rest"], g.c.a, <<>>)
  ELSE Step(Iterate(g.c.b), Fuel)

\* Generator g runs the body named fn: it has not finished, and the call
\* has not run out of fuel.
Runs(g, fuel, fn) == g.pc # "done" /\ fuel # 0 /\ g.c.fn = fn

\* g.next() : run the body of generator g to its next yield.
Step(g, fuel) ==
  CASE g.pc = "done"                -> Done(g, <<>>)
    [] g.pc # "done" /\ fuel = 0    -> Diverge(g, <<>>)
    [] Runs(g, fuel, "naturals")    -> NaturalsBody(g)
    [] Runs(g, fuel, "array")       -> ArrayBody(g)
    [] Runs(g, fuel, "map")         -> MapBody(Enter(g), Step(Enter(g).it, Fuel))
    [] Runs(g, fuel, "filter")      -> FilterBody(Enter(g), Step(Enter(g).it, Fuel), fuel)
    [] Runs(g, fuel, "take")        -> TakeBody(Enter(g), Step(Enter(g).it, Fuel))
    [] Runs(g, fuel, "drop")        -> DropBody(Enter(g), Step(Enter(g).it, Fuel), fuel)
    [] Runs(g, fuel, "takeWhile")   -> TakeWhileBody(Enter(g), Step(Enter(g).it, Fuel))
    [] Runs(g, fuel, "dropWhile")   -> DropWhileBody(Enter(g), Step(Enter(g).it, Fuel), fuel)
    [] Runs(g, fuel, "from")        -> FromBody(g, Call(g.c.f, Fuel))
    [] Runs(g, fuel, "cons")        -> ConsBody(g)
    [] Runs(g, fuel, "zip")         -> ZipRound(g, ZipEnter(g))

(***************************************************************************)
(* The eager operations.  A loop that would never end is cut after         *)
(* LoopFuel iterations and reported as divergent.                          *)
(***************************************************************************)
RECURSIVE LengthLoop(_, _, _)
\* n++ for the result r of the iterator's next()
LengthBody(r, n, fuel) ==
  CASE r.r = "yield" -> After(r.ev, LengthLoop(r.g, n + 1, fuel - 1))
    [] r.r = "done"  -> Ok(Num(n), r.ev)
    [] r.r = "throw" -> Throw(r.err, r.ev)
    [] OTHER         -> Hang(r.ev)

LengthLoop(g, n, fuel) ==
  IF fuel = 0 THEN Hang(<<>>) ELSE LengthBody(Step(g, Fuel), n, fuel)

\* get length() with the tag not consulted
LengthUnguarded(s) == LengthLoop(Iterate(s), 0, LoopFuel)

\* get length()
Length(s) ==
  IF Truthy(s.infinite) THEN Ok(Infinity, <<>>)
  ELSE LengthLoop(Iterate(s), 0, LoopFuel)

RECURSIVE ForEachLoop(_, _, _)
\* cb.call(ctx, k) for the result r of the iterator's next()
ForEachBody(r, cb, fuel) ==
  CASE r.r = "yield" ->
         After(r.ev \o <<CbEvent(cb, CbArgs(r.v))>>, ForEachLoop(r.g, cb, fuel - 1))
    [] r.r = "done"  -> Ok(Undefined, r.ev)
    [] r.r = "throw" -> Throw(r.err, r.ev)
    [] OTHER         -> Hang(r.ev)

ForEachLoop(g, cb, fuel) ==
  IF fuel = 0 THEN Hang(<<>>) ELSE ForEachBody(Step(g, Fuel), cb, fuel)

\* forEach without the test of the tag
ForEachUnguarded(s, cb) == ForEachLoop(Iterate(s), cb, LoopFuel)

ForEach(s, cb) ==
  IF Truthy(s.infinite) THEN Throw("InfiniteSequenceError", <<>>)
  ELSE ForEachLoop(Iterate(s), cb, LoopFuel)

\* f(prev, current)
ReduceArgs(prev, current) == <<prev, current>>

RECURSIVE ReduceLoop(_, _, _, _)
\* prev = f(prev, current) for the result r of the iterator's next()
ReduceBody(r, f, prev, fuel) ==
  CASE r.r = "yield" ->
         After(r.ev \o <<CbEvent(f, ReduceArgs(prev, r.v))>>,
               ReduceLoop(r.g, f, Apply(f, ReduceArgs(prev, r.v)), fuel - 1))
    [] r.r = "done"  -> Ok(prev, r.ev)
    [] r.r = "throw" -> Throw(r.err, r.ev)
    [] OTHER         -> Hang(r.ev)

ReduceLoop(g, f, prev, fuel) ==
  IF fuel = 0 THEN Hang(<<>>) ELSE ReduceBody(Step(g, Fuel), f, prev, fuel)

\* let prev = this.head; let tail = this.tail; for (let current of tail) ...
ReduceFrom(s, f, prev, rounds) ==
  IF prev.r # "ok" THEN prev
  ELSE After(prev.ev, ReduceLoop(Iterate(LazyTail(s).v), f, prev.v, rounds))

\* reduce(f), its loop counted as divergent after the given rounds
ReduceWithin(s, f, rounds) ==
  IF ~IsFunctionCb(f) THEN Throw("TypeError", <<>>)
  ELSE IF Truthy(s.infinite) THEN Throw("InfiniteSequenceError", <<>>)
  ELSE ReduceFrom(s, f, LazyHead(s, Fuel), rounds)

Reduce(s, f) == ReduceWithin(s, f, LoopFuel)

\* [ ...s ] : the host's iteration protocol driving s into an array
RECURSIVE SpreadLoop(_, _, _)
SpreadBody(r, acc, fuel) ==
  CASE r.r = "yield" -> After(r.ev, SpreadLoop(r.g, Append(acc, r.v), fuel - 1))
    [] r.r = "done"  -> Ok(Array(acc), r.ev)
    [] r.r = "throw" -> Throw(r.err, r.ev)
    [] OTHER         -> Hang(r.ev)

SpreadLoop(g, acc, fuel) ==
  IF fuel = 0 THEN Hang(<<>>) ELSE SpreadBody(Step(g, Fuel), acc, fuel)

ToArray(s) == SpreadLoop(Iterate(s), <<>>, LoopFuel)

(***************************************************************************)
(* The consumer program: a run of steps, each a call that constructs a     *)
(* Sequence, a call of an eager operation, the opening of a cursor or the  *)
(* advance of one.                                                         *)
(***************************************************************************)
VARIABLES
  vals,    \* the Sequence values the program holds, in order of construction
  curs,    \* the cursors opened so far: the value iterated, the generator
           \* object, the elements it has yielded, and how it stands
  count,   \* side effects so far: callback invocations, elements computed
           \* by origins, deferred functions invoked
  steps,   \* steps taken so far
  limit,   \* the length of the program
  last,    \* the most recent step: operation, operand, outcome, side effects
  hung     \* a call has not returned (and never will)

vars == <<vals, curs, count, steps, limit, last, hung>>

\* The inputs the program draws from.
Arrays == {Array([i \in 1..ArrayLen |-> Num(i)])}
NaturalsArgs == {Num(0), Num(MaxN)}
Counts == 0..MaxN
MapCbs == {Cb("inc", 0)}
Preds == {Cb("even", 0), Cb("lt", 1)}
Folds == {Cb("sum", 0)}
Visitors == {Cb("log", 0)}
ConsHeads == {Num(0)}
FromFlags == {U, T}

\* The kind of element a value yields: numbers, or the pairs of zip.
RECURSIVE KindOf(_)
KindOf(v) ==
  IF v.cls = "Array" THEN "num"
  ELSE CASE v.iter.fn = "zip" -> "pair"
         [] v.iter.fn \in {"naturals", "from", "cons", "map"} -> "num"
         [] OTHER -> KindOf(v.iter.orig)

Numeric(v) == KindOf(v) = "num"

\* The deferred functions given to Lazy.from: one returning an array, and
\* the sieve of src/primes.js over a naturals(n), n >= 2.
ArrayThunks == {[t |-> "const", v |-> a] : a \in Arrays}

SieveThunks(S) ==
  {[t |-> "sieve", arg |-> v, inf |-> U] :
     v \in {w \in S : w.iter.fn = "naturals" /\ w.iter.n >= 2}}

\* Every Sequence one call constructs from nothing but its arguments.
Origins ==
  {Naturals(n).v : n \in NaturalsArgs}
    \cup {From(f, inf).v : f \in ArrayThunks, inf \in FromFlags}

\* The primes of src/primes.js over the naturals among S.
Sieves(S) == {From(f, inf).v : f \in SieveThunks(S), inf \in FromFlags}

Unary(S) ==
  LET N == {v \in S : Numeric(v)}
  IN  {Take(v, n).v : v \in S, n \in Counts}
        \cup {Drop(v, n).v : v \in S, n \in Counts}
        \cup {LazyTail(v).v : v \in S}
        \cup {Map(v, cb).v : v \in N, cb \in MapCbs}
        \cup {Filter(v, p).v : v \in N, p \in Preds}
        \cup {TakeWhile(v, p).v : v \in N, p \in Preds}
        \cup {DropWhile(v, p).v : v \in N, p \in Preds}

Binary(S, O) ==
  LET N == {v \in S : Numeric(v)}
      M == {v \in O : Numeric(v)}
  IN  {Cons(a, b, inf).v : a \in ConsHeads, b \in N, inf \in Flags}
        \cup {Zip(a, b).v : a \in N, b \in M}
        \cup {Zip(a, b).v : a \in M, b \in N}
        \cup {ZipWith(f, a, b).v : f \in Folds, a \in N, b \in M}

\* The Sequences an expression of at most d combinators deep denotes.
RECURSIVE Chains(_)
Chains(d) ==
  IF d = 0 THEN Origins \cup Binary(Arrays, Arrays)
  ELSE LET C == Chains(d - 1)
       IN  C \cup Unary(C) \cup Sieves(C)
             \cup Binary(C, {Naturals(Num(0)).v} \cup Arrays)

Tally(c, ev) ==
  LET n(kind) == Cardinality({j \in 1..Len(ev) : ev[j].e = kind})
  IN  [cb |-> c.cb + n("cb"), origin |-> c.origin + n("origin"), thunk |-> c.thunk + n("thunk")]

Step0 == [op |-> "none", on |-> 0, r |-> "ok", v |-> Undefined, err |-> "", ev |-> <<>>]
Did(op, on, res) ==
  [op |-> op, on |-> on, r |-> res.r, v |-> res.v, err |-> res.err, ev |-> res.ev]

Held == {vals[i] : i \in 1..Len(vals)}

\* A program that starts with nothing and takes at most MaxOps steps.
Init ==
  /\ vals = <<>>
  /\ curs = <<>>
  /\ count = [cb |-> 0, origin |-> 0, thunk |-> 0]
  /\ steps = 0
  /\ limit = MaxOps
  /\ last = Step0
  /\ hung = FALSE

\* A program that holds the value of one expression and only iterates.
InitIter ==
  /\ vals \in {<<s>> : s \in Chains(MaxDepth)}
  /\ curs = <<>>
  /\ count = [cb |-> 0, origin |-> 0, thunk |-> 0]
  /\ steps = 0
  /\ limit = MaxCursors * (MaxOut + 2)
  /\ last = Step0
  /\ hung = FALSE

Ready == ~hung /\ steps < limit

\* A call that constructs a Sequence: the program keeps the value returned.
Construct(op, on, res) ==
  /\ Ready
  /\ steps' = steps + 1
  /\ vals' = IF res.r = "ok" THEN Append(vals, res.v) ELSE vals
  /\ count' = Tally(count, res.ev)
  /\ last' = Did(op, on, res)
  /\ hung' = (res.r = "diverge")
  /\ UNCHANGED <<curs, limit>>

\* A call of an eager operation: the program looks at the outcome.
Force(op, on, res) ==
  /\ Ready
  /\ steps' = steps + 1
  /\ count' = Tally(count, res.ev)
  /\ last' = Did(op, on, res)
  /\ hung' = (res.r = "diverge")
  /\ UNCHANGED <<vals, curs, limit>>

NaturalsCall == \E n \in NaturalsArgs : Construct("naturals", 0, Naturals(n))

FromCall ==
  \E f \in ArrayThunks, inf \in FromFlags : Construct("from", 0, From(f, inf))

ConsCall ==
  \E a \in ConsHeads, b \in {v \in Held \cup Arrays : Numeric(v)}, inf \in Flags :
    Construct("cons", 0, Cons(a, b, inf))

ZipCall ==
  \E a, b \in {v \in Held \cup Arrays : Numeric(v)} : Construct("zip", 0, Zip(a, b))

ZipWithCall ==
  \E f \in Folds : \E a, b \in {v \in Held \cup Arrays : Numeric(v)} :
    Construct("zipWith", 0, ZipWith(f, a, b))

MapCall ==
  \E i \in 1..Len(vals), cb \in MapCbs :
    Numeric(vals[i]) /\ Construct("map", i, Map(vals[i], cb))

FilterCall ==
  \E i \in 1..Len(vals), p \in Preds :
    Numeric(vals[i]) /\ Construct("filter", i, Filter(vals[i], p))

TakeCall == \E i \in 1..Len(vals), n \in Counts : Construct("take", i, Take(vals[i], n))

DropCall == \E i \in 1..Len(vals), n \in Counts : Construct("drop", i, Drop(vals[i], n))

TakeWhileCall ==
  \E i \in 1..Len(vals), p \in Preds :
    Numeric(vals[i]) /\ Construct("takeWhile", i, TakeWhile(vals[i], p))

DropWhileCall ==
  \E i \in 1..Len(vals), p \in Preds :
    Numeric(vals[i]) /\ Construct("dropWhile", i, DropWhile(vals[i], p))

TailCall == \E i \in 1..Len(vals) : Construct("tail", i, LazyTail(vals[i]))

HeadCall == \E i \in 1..Len(vals) : Force("head", i, LazyHead(vals[i], Fuel))

LengthCall == \E i \in 1..Len(vals) : Force("length", i, Length(vals[i]))

ForEachCall ==
  \E i \in 1..Len(vals), cb \in Visitors : Force("forEach", i, ForEach(vals[i], cb))

ReduceCall ==
  \E i \in 1..Len(vals), f \in Folds :
    Numeric(vals[i]) /\ Force("reduce", i, Reduce(vals[i], f))

SpreadCall == \E i \in 1..Len(vals) : Force("spread", i, ToArray(vals[i]))

\* A new cursor on held value i, with generator object g, added to the
\* cursors cs.  Every call of the iterator function gives a generator
\* object of its own.
OpenCursorShared(cs, i, g) ==
  LET same == {c \in 1..Len(cs) : cs[c].of = i}
  IN  Append(cs, [of |-> i,
                  g |-> IF same = {} THEN g ELSE cs[CHOOSE c \in same : TRUE].g,
                  out |-> <<>>, st |-> "open"])

OpenCursor(cs, i, g) == Append(cs, [of |-> i, g |-> g, out |-> <<>>, st |-> "open"])

\* s[Symbol.iterator]()
Open ==
  \E i \in 1..Len(vals) :
    LET r == IteratorCall(vals[i])
    IN  /\ Ready
        /\ Len(curs) < MaxCursors
        /\ steps' = steps + 1
        /\ curs' = OpenCursor(curs, i, r.v)
        /\ count' = Tally(count, r.ev)
        /\ last' = Did("iterator", i, r)
        /\ UNCHANGED <<vals, limit, hung>>

\* The cursors cs after cursor c has been advanced with outcome r.
Advanced(cs, c, r) ==
  [cs EXCEPT ![c] =
     [of  |-> @.of,
      g   |-> r.g,
      out |-> IF r.r = "yield" THEN Append(@.out, r.v) ELSE @.out,
      st  |-> CASE r.r = "yield" -> "open"
                [] r.r = "done"  -> "done"
                [] r.r = "throw" -> "threw"
                [] OTHER         -> "hung"]]

\* c.next(), for a consumer that pulls at most max elements from a cursor
AdvanceWithin(max) ==
  \E c \in 1..Len(curs) :
    \E r \in {Step(curs[c].g, Fuel)} :
        /\ Ready
        /\ curs[c].st = "open"
        /\ Len(curs[c].out) < max
        /\ steps' = steps + 1
        /\ curs' = Advanced(curs, c, r)
        /\ count' = Tally(count, r.ev)
        /\ last' = Did("next", c, r)
        /\ hung' = (r.r = "diverge")
        /\ UNCHANGED <<vals, limit>>

Advance == AdvanceWithin(MaxOut)

Next ==
  \/ NaturalsCall \/ FromCall \/ ConsCall \/ ZipCall \/ ZipWithCall
  \/ MapCall \/ FilterCall \/ TakeCall \/ DropCall \/ TakeWhileCall \/ DropWhileCall
  \/ TailCall
  \/ HeadCall \/ LengthCall \/ ForEachCall \/ ReduceCall \/ SpreadCall
  \/ Open \/ Advance

Spec == Init /\ [][Next]_vars

NextIter == Open \/ Advance

SpecIter == InitIter /\ [][NextIter]_vars

(***************************************************************************)
(* A program that also passes arguments of the wrong kind.                 *)
(***************************************************************************)
AnyStart == NaturalsArgs \cup {Num(-1), Undefined, Str, Null}
AnyIterator == {NotCallable, [fn |-> "naturals", n |-> 0]}
AnyThunk == ArrayThunks \cup {NotCallable}
AnyMapCb == MapCbs \cup {NotCallableCb}
AnyPred == Preds \cup {NotCallableCb}
AnyOperand == {v \in Held \cup Arrays : Numeric(v)} \cup {NotIterable, NoOperand}

\* new Lazy(iterator, infinite)
NewAny ==
  \E it \in AnyIterator, inf \in Flags : Construct("new", 0, Lazy(it, inf))

NaturalsAny == \E n \in AnyStart : Construct("naturals", 0, Naturals(n))

FromAny == \E f \in AnyThunk, inf \in FromFlags : Construct("from", 0, From(f, inf))

ConsAny ==
  \E a \in ConsHeads, b \in AnyOperand, inf \in Flags :
    Construct("cons", 0, Cons(a, b, inf))

ZipAny == \E a, b \in AnyOperand : Construct("zip", 0, Zip(a, b))

MapAny ==
  \E i \in 1..Len(vals), cb \in AnyMapCb :
    Numeric(vals[i]) /\ Construct("map", i, Map(vals[i], cb))

FilterAny ==
  \E i \in 1..Len(vals), p \in AnyPred :
    Numeric(vals[i]) /\ Construct("filter", i, Filter(vals[i], p))

TakeWhileAny ==
  \E i \in 1..Len(vals), p \in AnyPred :
    Numeric(vals[i]) /\ Construct("takeWhile", i, TakeWhile(vals[i], p))

DropWhileAny ==
  \E i \in 1..Len(vals), p \in AnyPred :
    Numeric(vals[i]) /\ Construct("dropWhile", i, DropWhile(vals[i], p))

NextArgs ==
  \/ NewAny \/ NaturalsAny \/ FromAny \/ ConsAny \/ ZipAny
  \/ MapAny \/ FilterAny \/ TakeWhileAny \/ DropWhileAny
  \/ HeadCall \/ LengthCall \/ ForEachCall \/ ReduceCall

SpecArgs == Init /\ [][NextArgs]_vars

(***************************************************************************)
(* The primes demonstrations: [ ... primes().take(10) ], traversed by up   *)
(* to MaxCursors cursors.                                                  *)
(***************************************************************************)
PrimesShown == 10

\* () => sieve(Lazy.naturals(2)), the cons inside sieve given the flag inf
SieveOfNaturals(inf) == [t |-> "sieve", arg |-> Naturals(Num(2)).v, inf |-> inf]

\* primes() of src/primes.js, primes2() and primes() of src/test.js
PrimesPrograms ==
  {Call(SieveOfNaturals(U), Fuel).v,
   Call(SieveOfNaturals(T), Fuel).v,
   From(SieveOfNaturals(U), T).v}

InitPrimes ==
  /\ vals \in {<<Take(p, PrimesShown).v>> : p \in PrimesPrograms}
  /\ curs = <<>>
  /\ count = [cb |-> 0, origin |-> 0, thunk |-> 0]
  /\ steps = 0
  /\ limit = MaxCursors * (PrimesShown + 2)
  /\ last = Step0
  /\ hung = FALSE

\* the spread pulls until the cursor reports done
AdvanceToEnd == AdvanceWithin(PrimesShown + 1)

NextPrimes == Open \/ AdvanceToEnd

SpecPrimes == InitPrimes /\ [][NextPrimes]_vars

(***************************************************************************)
(* The Fibonacci demonstration:                                            *)
(* fibs().takeWhile(n => n < 4000000).filter(isEven).reduce(sum)           *)
(***************************************************************************)
FibLimit == 4000000

\* () => f(1, 1), the cons inside f given the flag inf
FibsFrom(inf) == [t |-> "fib", a |-> 1, b |-> 1, inf |-> inf]

\* fibs() and fibs2() of src/test.js
FibsPrograms == {From(FibsFrom(U), T).v, Call(FibsFrom(T), Fuel).v}

InitFibs ==
  /\ vals \in {<<p>> : p \in FibsPrograms}
  /\ curs = <<>>
  /\ count = [cb |-> 0, origin |-> 0, thunk |-> 0]
  /\ steps = 0
  /\ limit = MaxOps + 2
  /\ last = Step0
  /\ hung = FALSE

BelowCall ==
  \E i \in 1..Len(vals) :
    Construct("takeWhile", i, TakeWhile(vals[i], Cb("lt", FibLimit)))

EvenCall ==
  \E i \in 1..Len(vals) : Construct("filter", i, Filter(vals[i], Cb("even", 0)))

\* The program sums what it has filtered, or what is still tagged infinite.
SumCall ==
  \E i \in 1..Len(vals) :
    /\ Tagged(vals[i]) \/ vals[i].iter.fn = "filter"
    /\ Force("reduce", i, ReduceWithin(vals[i], Cb("sum", 0), FibRounds))

NextFibs == BelowCall \/ EvenCall \/ SumCall \/ Open \/ Advance

SpecFibs == InitFibs /\ [][NextFibs]_vars

(***************************************************************************)
(* A program that holds the value of one expression and forces it with     *)
(* the eager operations.                                                   *)
(***************************************************************************)
\* C and what one more call makes of its members
Grown(C) == C \cup Unary(C) \cup Binary(C, {Naturals(Num(0)).v} \cup Arrays)

\* The Sequences derived from naturals(k) or from(() => array) by at most
\* MaxDepth calls of map, filter, take, drop, takeWhile, dropWhile, tail,
\* cons, zip and zipWith.
Forced == Grown(Grown(Origins))

InitForce ==
  /\ vals \in {<<s>> : s \in Forced}
  /\ curs = <<>>
  /\ count = [cb |-> 0, origin |-> 0, thunk |-> 0]
  /\ steps = 0
  /\ limit = MaxN
  /\ last = Step0
  /\ hung = FALSE

NextForce == LengthCall \/ ForEachCall \/ ReduceCall

SpecForce == InitForce /\ [][NextForce]_vars

(***************************************************************************)
(* Properties.                                                             *)
(***************************************************************************)
Constructors ==
  {"naturals", "from", "cons", "zip", "zipWith", "map", "filter", "take", "drop",
   "takeWhile", "dropWhile", "tail"}

NoEffects == [cb |-> 0, origin |-> 0, thunk |-> 0]

\* The first k elements of s as one traversal on its own yields them, and
\* how that traversal stands after them.
RECURSIVE Pull(_, _, _)
Pulled(r, k, out) ==
  CASE r.r = "yield" -> Pull(r.g, k - 1, Append(out, r.v))
    [] r.r = "done"  -> [out |-> out, st |-> "done"]
    [] r.r = "throw" -> [out |-> out, st |-> "threw"]
    [] OTHER         -> [out |-> out, st |-> "hung"]

Pull(g, k, out) ==
  IF k = 0 THEN [out |-> out, st |-> "open"] ELSE Pulled(Step(g, Fuel), k, out)

FirstK(s, k) == Pull(Iterate(s), k, <<>>)

\* s yields no element at all.
IsEmptySeq(s) == FirstK(s, 1) = [out |-> <<>>, st |-> "done"]

\* C1: forEach and reduce called on a Sequence tagged infinite throw
\* InfiniteSequenceError with no side effect at all (no element computed, no
\* callback called); called on take(n) of naturals they return normally.
C1_UnboundedGuard ==
  last.op \in {"forEach", "reduce"} =>
    LET s == vals[last.on]
    IN  /\ (s.infinite = T) =>
             (last.r = "throw" /\ last.err = "InfiniteSequenceError" /\ last.ev = <<>>)
        /\ (s.iter.fn = "take" /\ s.iter.orig.iter.fn = "naturals") => (last.r = "ok")

C1_Witness ==
  /\ last.op = "reduce"
  /\ vals[last.on].iter.fn = "filter"
  /\ vals[last.on].infinite = T
  /\ last.err = "InfiniteSequenceError"

\* C2: head and reduce called on a Sequence that yields no element throw
\* EmptySequenceError; neither returns a value.
C2_EmptyThrows ==
  (last.op \in {"head", "reduce"} /\ IsEmptySeq(vals[last.on])) =>
    (last.r = "throw" /\ last.err = "EmptySequenceError")

\* C3: a call of a combinator or static helper computes no element, calls no
\* callback and leaves every cursor as it is; the counts of side effects
\* move only when a cursor is advanced or an eager operation runs.
C3_Laziness ==
  [][(last'.op \in Constructors \cup {"iterator"})
       => /\ count' = count
          /\ last'.ev = <<>>
          /\ \A c \in 1..Len(curs) : curs'[c] = curs[c]]_vars

C3_Witness ==
  /\ Len(vals) = 3
  /\ vals[1].iter.fn = "naturals"
  /\ vals[2].iter.fn = "filter"
  /\ last.op = "takeWhile"
  /\ count = NoEffects

\* C4: the function given to Lazy.from is not called when the Sequence is
\* constructed nor when a cursor is created; each cursor calls it once, at its
\* first advance, and the sieve wrapped in from() makes one more recursive
\* call per element demanded, none before.
RECURSIVE Demanded(_)
Demanded(cs) == IF cs = <<>> THEN 0 ELSE Len(cs[1].out) + Demanded(Tail(cs))

C4_Deferred ==
  /\ (last.op = "iterator") =>
       \A j \in 1..Len(last.ev) : last.ev[j].e # "thunk"
  /\ (Len(vals) = 1 /\ vals[1].iter.fn = "from") =>
       count.thunk =
         IF vals[1].iter.f.t = "const"
         THEN Cardinality({c \in 1..Len(curs) : curs[c].g # Iterate(vals[1])})
         ELSE Demanded(curs)

C4_Witness ==
  /\ Len(vals) = 1
  /\ vals[1].iter.fn = "from"
  /\ vals[1].iter.f.t = "sieve"
  /\ Len(curs) = 2
  /\ Len(curs[1].out) = 2
  /\ Len(curs[2].out) = 1
  /\ count.thunk = 3

\* C5: map, filter, drop, dropWhile and tail give a Sequence with the tag of
\* the original; take and takeWhile give the tag false; naturals gives true;
\* every tag is a boolean, and no step changes a Sequence already held.
C5_TagState ==
  /\ \A i \in 1..Len(vals) : vals[i].infinite \in {T, F}
  /\ (last.r = "ok" /\ last.op \in {"map", "filter", "drop", "dropWhile", "tail"})
       => last.v.infinite = vals[last.on].infinite
  /\ (last.r = "ok" /\ last.op \in {"take", "takeWhile"}) => last.v.infinite = F
  /\ (last.r = "ok" /\ last.op = "naturals") => last.v.infinite = T

C5_TagPropagation ==
  /\ []C5_TagState
  /\ [][\A i \in 1..Len(vals) : vals'[i] = vals[i]]_vars

C5_Witness ==
  /\ last.op = "take"
  /\ vals[last.on].iter.fn = "dropWhile"
  /\ vals[last.on].infinite = T
  /\ last.v.infinite = F

\* C6: map(f) and filter(p) call their callback with the element and its
\* 0-based position in that cursor's traversal of the origin.
C6_IndexPassed ==
  (/\ last.op = "next"
   /\ last.r = "yield"
   /\ vals[curs[last.on].of].iter.fn \in {"map", "filter"}
   /\ vals[curs[last.on].of].iter.cb.f # "spread") =>
    LET e == last.ev[Len(last.ev)]
    IN  /\ e.e = "cb"
        /\ Len(e.args) = 2
        /\ e.args[2].k = "num"
        /\ (vals[curs[last.on].of].iter.fn = "map") =>
             (e.args[2].x = Len(curs[last.on].out) - 1)

\* C7: whatever the interleaving, every cursor has yielded exactly what one
\* traversal on its own yields, in the same order, and a cursor is exhausted
\* only where that traversal is.
C7_Independent ==
  \A c \in 1..Len(curs) :
    LET s == vals[curs[c].of]
        n == Len(curs[c].out)
    IN  /\ curs[c].out = FirstK(s, n).out
        /\ (curs[c].st = "done") => (FirstK(s, n + 1) = [out |-> curs[c].out, st |-> "done"])

C7_Witness ==
  /\ Len(curs) = 2
  /\ vals[1].iter.fn = "take"
  /\ vals[1].iter.orig.iter.fn = "map"
  /\ curs[1].st = "done"
  /\ Len(curs[1].out) = 2
  /\ curs[2].st = "open"
  /\ Len(curs[2].out) = 1

\* C8: a traversal of s.take(n) never yields more than n elements, and once
\* it has yielded n, they followed by the first m elements of s.drop(n) are
\* the first n + m elements of s, for every m.
C8_TakeDrop ==
  \A c \in 1..Len(curs) :
    LET t == vals[curs[c].of]
    IN  (t.iter.fn = "take") =>
          LET s == t.iter.orig
              n == t.iter.n
          IN  /\ Len(curs[c].out) <= n
              /\ (Len(curs[c].out) = n) =>
                   \A m \in 0..MaxOut :
                     curs[c].out \o FirstK(Drop(s, n).v, m).out = FirstK(s, n + m).out

C8_Witness ==
  /\ Len(curs) = 1
  /\ vals[1].iter.fn = "take"
  /\ vals[1].iter.n = MaxN
  /\ vals[1].iter.orig.iter.fn = "filter"
  /\ curs[1].st = "done"
  /\ Len(curs[1].out) = MaxN

\* What zip and cons are given: a Sequence held or an array.
Operands == {v \in Held \cup Arrays : Numeric(v)}

\* An operand known to end within ArrayLen elements.
Short(v) == v.cls = "Array" \/ (v.iter.fn = "from" /\ v.iter.f.t = "const")

Elems(v) == IF v.cls = "Array" THEN v.elems ELSE FirstK(v, ArrayLen).out

MinLen(x, y) == IF Len(x) <= Len(y) THEN Len(x) ELSE Len(y)

\* C9: zip(a, b) yields the pairs [a_i, b_i] and stops with the shorter side;
\* its tag is true if both are tagged and the boolean false otherwise;
\* zipWith(f, a, b) yields f(a_i, b_i) under the same rules.
C9_ZipPairs ==
  \A a, b \in Operands :
    /\ (last.op = "zip" /\ last.v = Zip(a, b).v) =>
         (last.v.infinite = IF Tagged(a) /\ Tagged(b) THEN T ELSE F)
    /\ (last.op = "spread" /\ (Short(a) \/ Short(b))) =>
         LET ea == Elems(a)
             eb == Elems(b)
         IN  /\ (vals[last.on] = Zip(a, b).v) =>
                  /\ last.r = "ok"
                  /\ last.v = Array([j \in 1..MinLen(ea, eb) |-> Pair(ea[j].x, eb[j].x)])
             /\ \A f \in Folds :
                  (vals[last.on] = ZipWith(f, a, b).v) =>
                    /\ last.r = "ok"
                    /\ last.v = Array([j \in 1..MinLen(ea, eb) |-> Apply(f, <<ea[j], eb[j]>>)])

\* The finite Sequence of the elements of an array.
AsSeq(v) == IF v.cls = "Array" THEN From([t |-> "const", v |-> v], U).v ELSE v

\* C10: cons and zip accept an array where they accept a Sequence:
\* construction succeeds and a traversal of the result ends without error,
\* with the elements it has when the array is a finite Sequence instead.
C10_ArraysAccepted ==
  \A a \in Arrays :
    /\ (last.op \in {"cons", "zip"}) => (last.r = "ok")
    /\ (last.op = "spread") =>
         /\ \A h \in ConsHeads, inf \in Flags :
              (vals[last.on] = Cons(h, a, inf).v) =>
                /\ last.r = "ok"
                /\ last.v = ToArray(Cons(h, AsSeq(a), inf).v).v
         /\ \A x \in {v \in Operands : Short(v) \/ Tagged(v)} :
              /\ (vals[last.on] = Zip(x, a).v) =>
                   /\ last.r = "ok"
                   /\ last.v = ToArray(Zip(AsSeq(x), AsSeq(a)).v).v
              /\ (vals[last.on] = Zip(a, x).v) =>
                   /\ last.r = "ok"
                   /\ last.v = ToArray(Zip(AsSeq(a), AsSeq(x)).v).v

\* The first k elements of an operand, array or Sequence.
Ahead(b, k) ==
  IF b.cls = "Array" THEN SubSeq(b.elems, 1, IF k <= Len(b.elems) THEN k ELSE Len(b.elems))
  ELSE FirstK(b, k).out

\* let a = Lazy.cons(1, [2, 3, 4, 5]);  [ ... a ]
ConsDemo == Cons(Num(1), Array([i \in 1..4 |-> Num(i + 1)]), U).v

\* C11: cons(a, b) yields a and then the elements of b in order; its tag is
\* the third argument when one is given, otherwise the tag of b when b is a
\* Sequence, otherwise false; cons(1, [2,3,4,5]) spreads to [1,2,3,4,5] and
\* is tagged false.
C11_Cons ==
  /\ \A h \in ConsHeads, b \in Operands, inf \in Flags :
       (last.op = "cons" /\ last.v = Cons(h, b, inf).v) =>
         /\ last.r = "ok"
         /\ last.v.infinite = (IF inf # U THEN inf ELSE IF IsLazy(b) THEN b.infinite ELSE F)
  /\ \A c \in 1..Len(curs) :
       LET s == vals[curs[c].of]
       IN  (s.iter.fn = "cons") =>
             LET all == <<s.iter.a>> \o Ahead(s.iter.b, MaxOut)
             IN  /\ Len(curs[c].out) <= Len(all)
                 /\ curs[c].out = SubSeq(all, 1, Len(curs[c].out))
                 /\ (curs[c].st = "done") => (curs[c].out = all)
  /\ (last.op = "spread" /\ vals[last.on].iter.fn = "cons"
        /\ Short(vals[last.on].iter.b)) =>
       /\ last.r = "ok"
       /\ last.v = Array(<<vals[last.on].iter.a>> \o Elems(vals[last.on].iter.b))
  /\ ConsDemo.infinite = F
  /\ ToArray(ConsDemo) = Ok(Array([i \in 1..5 |-> Num(i)]),
                            [i \in 1..4 |-> OriginEvent("array", Num(i + 1))])

C11_Witness ==
  /\ last.op = "spread"
  /\ last.r = "ok"
  /\ vals[last.on] = Cons(Num(0), Array([i \in 1..ArrayLen |-> Num(i)]), U).v
  /\ vals[last.on].infinite = F
  /\ last.v = Array([i \in 1..ArrayLen + 1 |-> Num(i - 1)])

\* v yields results of the function given to zipWith.
RECURSIVE ViaZipWith(_)
ViaZipWith(v) ==
  IF v.cls = "Array" THEN FALSE
  ELSE CASE v.iter.fn \in {"naturals", "from", "zip"} -> FALSE
         [] v.iter.fn = "cons" -> ViaZipWith(v.iter.b)
         [] v.iter.fn = "map"  -> v.iter.cb.f = "spread" \/ ViaZipWith(v.iter.orig)
         [] OTHER              -> ViaZipWith(v.iter.orig)

\* f(...f(f(acc, es[1]), es[2])..., es[Len(es)])
RECURSIVE FoldLeft(_, _, _)
FoldLeft(f, acc, es) ==
  IF es = <<>> THEN acc ELSE FoldLeft(f, Apply(f, <<acc, es[1]>>), Tail(es))

\* The accumulators of a left fold of es from acc, one per element.
RECURSIVE Accs(_, _, _)
Accs(f, acc, es) ==
  IF es = <<>> THEN <<>> ELSE <<acc>> \o Accs(f, Apply(f, <<acc, es[1]>>), Tail(es))

\* The invocations of callback name among the events ev, in order.
CallsOf(name, ev) == SelectSeq(ev, LAMBDA e : e.e = "cb" /\ e.f = name)

\* reduce(f) on s returned the left fold of the elements es of s, having
\* called f once per element after the first, in order, on the accumulator
\* and the element.
LeftFolded(s, f, es) ==
  LET calls == CallsOf(f.f, last.ev)
      accs  == Accs(f, es[1], Tail(es))
  IN  /\ last.r = "ok"
      /\ last.v = FoldLeft(f, es[1], Tail(es))
      /\ Len(calls) = Len(es) - 1
      /\ \A j \in 1..Len(calls) :
           /\ Len(calls[j].args) >= 2
           /\ calls[j].args[1] = accs[j]
           /\ calls[j].args[2] = es[j + 1]

\* C12: reduce(f) on a non-empty Sequence e0, ..., ek tagged false returns
\* the left fold from e0, calling f exactly k times, in order, as
\* f(accumulator, element, index); for k = 0 it returns e0 and never calls f.
C12_LeftFold ==
  \A f \in Folds :
    (/\ last.op = "reduce"
     /\ vals[last.on].infinite = F
     /\ ~ViaZipWith(vals[last.on])
     /\ ToArray(vals[last.on]).r = "ok"
     /\ ToArray(vals[last.on]).v.elems # <<>>) =>
      LET es    == ToArray(vals[last.on]).v.elems
          calls == CallsOf(f.f, last.ev)
      IN  /\ LeftFolded(vals[last.on], f, es)
          /\ \A j \in 1..Len(calls) :
               /\ Len(calls[j].args) = 3
               /\ calls[j].args[3] = Num(j - 1)

\* C13: length of a Sequence tagged true is Infinity, with no element
\* computed; length of a Sequence tagged false whose traversal ends makes
\* one traversal, to its end, and is the number of elements it yields.
C13_Length ==
  (last.op = "length") =>
    LET s == vals[last.on]
        t == ToArray(s)
    IN  /\ (s.infinite = T) =>
             (last.r = "ok" /\ last.v = Infinity /\ last.ev = <<>>)
        /\ (s.infinite = F /\ t.r = "ok") =>
             /\ last.r = "ok"
             /\ last.v = Num(Len(t.v.elems))
             /\ last.ev = t.ev

C13_Witness ==
  /\ last.op = "length"
  /\ vals[last.on].iter.fn = "filter"
  /\ vals[last.on].iter.orig.iter.fn = "cons"
  /\ vals[last.on].infinite = F
  /\ last.v = Num(2)
  /\ Len(last.ev) = 2 * ArrayLen + 1

\* The calls that return a Sequence and check an argument.
Checking ==
  {"new", "naturals", "from", "cons", "zip", "map", "filter", "takeWhile", "dropWhile"}

\* The last call threw err, having computed nothing.
Rejected(err) == last.r = "throw" /\ last.err = err /\ last.ev = <<>>

\* The last call returned a Sequence, having computed nothing.
Accepted == last.r = "ok" /\ IsLazy(last.v) /\ last.ev = <<>>

C14_Outcome ==
  /\ \A n \in AnyStart :
       (last = Did("naturals", 0, Naturals(n))) =>
         CASE n.k = "num" /\ n.x < 0 -> Rejected("RangeError")
           [] n.k = "num"            -> Accepted
           [] n = Undefined          -> Accepted
           [] OTHER                  -> Rejected("TypeError")
  /\ \A it \in AnyIterator, inf \in Flags :
       (last = Did("new", 0, Lazy(it, inf))) =>
         IF it = NotCallable THEN Rejected("TypeError") ELSE Accepted
  /\ \A f \in AnyThunk, inf \in FromFlags :
       (last = Did("from", 0, From(f, inf))) =>
         IF f = NotCallable THEN Rejected("TypeError") ELSE Accepted
  /\ \A a \in ConsHeads, b \in AnyOperand, inf \in Flags :
       (last = Did("cons", 0, Cons(a, b, inf))) =>
         IF b \in {NotIterable, NoOperand} THEN Rejected("TypeError") ELSE Accepted
  /\ \A a, b \in AnyOperand :
       (last = Did("zip", 0, Zip(a, b))) =>
         IF {a, b} \cap {NotIterable, NoOperand} # {}
         THEN Rejected("TypeError") ELSE Accepted
  /\ \A i \in 1..Len(vals) :
       /\ \A cb \in AnyMapCb :
            (last = Did("map", i, Map(vals[i], cb))) =>
              IF cb = NotCallableCb THEN Rejected("TypeError") ELSE Accepted
       /\ \A p \in AnyPred :
            /\ (last = Did("filter", i, Filter(vals[i], p))) =>
                 IF p = NotCallableCb THEN Rejected("TypeError") ELSE Accepted
            /\ (last = Did("takeWhile", i, TakeWhile(vals[i], p))) =>
                 IF p = NotCallableCb THEN Rejected("TypeError") ELSE Accepted
            /\ (last = Did("dropWhile", i, DropWhile(vals[i], p))) =>
                 IF p = NotCallableCb THEN Rejected("TypeError") ELSE Accepted
  /\ (last.op \in Checking) => (last.r \in {"ok", "throw"})
  /\ (last.op \in Checking /\ last.r = "throw") =>
       (last.err \in {"TypeError", "RangeError"} /\ last.ev = <<>>)
  /\ (last.r = "throw" /\ last.err = "InfiniteSequenceError") =>
       (last.op \in {"forEach", "reduce"})

\* A call that throws returns no Sequence and computes nothing.
C14_Thrown ==
  (last'.op \in Checking /\ last'.r = "throw") =>
    (vals' = vals /\ count' = count /\ curs' = curs)

\* C14: a non-invocable argument to the constructor, from, map, filter,
\* takeWhile or dropWhile and a non-iterable argument to cons or zip throw
\* TypeError at the call; naturals throws RangeError for a negative start
\* and TypeError for a start that is not a number; the call returns no
\* Sequence and computes no element; no call that returns a Sequence throws
\* InfiniteSequenceError, which only forEach and reduce do.
C14_ArgumentErrors == []C14_Outcome /\ [][C14_Thrown]_vars

C14_Witness ==
  /\ Len(vals) = 2
  /\ vals[1].iter.fn = "naturals"
  /\ last = Did("naturals", 0, Throw("RangeError", <<>>))
  /\ count = NoEffects

FirstPrimes == <<2, 3, 5, 7, 11, 13, 17, 19, 23, 29>>

\* C15: every traversal of the sieve over naturals(2) under take(10) yields
\* 2, 3, 5, 7, 11, 13, 17, 19, 23, 29 in this order, no advance failing to
\* return, and reports its end at the advance after the tenth element.
C15_Primes ==
  /\ ~hung
  /\ \A c \in 1..Len(curs) :
       /\ curs[c].st \in {"open", "done"}
       /\ Len(curs[c].out) <= PrimesShown
       /\ \A j \in 1..Len(curs[c].out) : curs[c].out[j] = Num(FirstPrimes[j])
       /\ (curs[c].st = "done") => (Len(curs[c].out) = PrimesShown)
  /\ (last.op = "next" /\ Len(curs[last.on].out) = PrimesShown) =>
       (last.r \in {"yield", "done"})
  /\ (last.op = "next" /\ last.r = "done") => (curs[last.on].st = "done")

C15_Witness ==
  /\ Len(curs) = 2
  /\ curs[1].st = "done"
  /\ curs[1].out = [j \in 1..PrimesShown |-> Num(FirstPrimes[j])]
  /\ curs[2].st = "open"
  /\ Len(curs[2].out) = 5

\* fibs().takeWhile(n => n < 4000000).filter(isEven), for either fibs
Euler2Of(p) == Filter(TakeWhile(p, Cb("lt", FibLimit)).v, Cb("even", 0)).v

\* C16: the Fibonacci numbers from (1, 1) below 4000000, filtered by
\* evenness and reduced by addition, give 4613732: the value reduced is
\* tagged false, takeWhile tagging false and filter keeping the tag, so
\* reduce does not refuse it.
C16_Euler2 ==
  \A p \in FibsPrograms :
    /\ p.infinite = T
    /\ \A i \in 1..Len(vals) :
         (vals[i] = Euler2Of(p)) =>
           /\ vals[i].iter.orig.infinite = F
           /\ vals[i].infinite = F
    /\ (last.op = "reduce" /\ vals[last.on] = Euler2Of(p)) =>
         (last.r = "ok" /\ last.v = Num(4613732))

C16_Witness ==
  /\ last.op = "reduce"
  /\ last.r = "ok"
  /\ vals[last.on] = Euler2Of(From(FibsFrom(U), T).v)
  /\ last.v = Num(4613732)

\* A Sequence whose every element is one the origin computes itself:
\* naturals, or from() of a function returning an array.
Elementary(s) ==
  \/ s.iter.fn = "naturals"
  \/ (s.iter.fn = "from" /\ s.iter.f.t = "const")

\* C17: a cursor of s.take(n), however far it is traversed, makes the
\* origin compute at most n elements, and for n <= 0 has no effect at all:
\* no element computed and no deferred function called.
C17_TakeStops ==
  (Len(curs) = 1) =>
    LET t == vals[curs[1].of]
    IN  (t.iter.fn = "take" /\ Elementary(t.iter.orig)) =>
          /\ count.origin <= t.iter.n
          /\ (t.iter.n <= 0) => (count = NoEffects)

\* How far the origin is read to find where a predicate first fails.
Window == MaxOut + 2

\* The position of the first of xs on which p is false, Len(xs) + 1 if none.
SplitAt(p, xs) ==
  CHOOSE j \in 1..(Len(xs) + 1) :
    /\ \A i \in 1..(j - 1) : Test(p, <<xs[i]>>)
    /\ (j <= Len(xs)) => ~Test(p, <<xs[j]>>)

C19_EagerEnds ==
  (last.op \in {"length", "forEach", "reduce"}) =>
    IF vals[last.on].infinite = T
    THEN /\ last.ev = <<>>
         /\ \/ last.r = "throw" /\ last.err = "InfiniteSequenceError"
            \/ last.op = "length" /\ last.r = "ok" /\ last.v = Infinity
    ELSE last.r \in {"ok", "throw"}

====
